---- MODULE Spec2Model ----
(***************************************************************************)
(* StravaClient (client.ts): the token lifecycle and the request dispatch  *)
(* path.  One client object; its callers are tasks that suspend only at    *)
(* the awaits of the code.  The remote service, the clock and the          *)
(* onTokenRefresh callback are the environment.                            *)
(*                                                                         *)
(* A task runs from a call to the next await in one step; the steps in     *)
(* between are the settlements the code awaits: the fetch (2xx, non-2xx,   *)
(* timer ran, TypeError), the response body, the callback.  Under Spec one *)
(* caller awaits each call before it makes the next.                       *)
(*                                                                         *)
(* Left to the environment and not varied here: a 2xx response always     *)
(* parses, a 2xx token response carries non-empty token strings; the       *)
(* callback either returns or throws and does not call back into the       *)
(* client.                                                                 *)
(*                                                                         *)
(* Five specifications share the actions:                                  *)
(*   Spec       one caller, every operation, a service that sends no       *)
(*              rate-limit headers;                                        *)
(*   RateSpec   one caller, the single-request operations, a service that  *)
(*              sends rate-limit headers of every shape;                   *)
(*   ConcSpec   two callers that do not await each other, the operations   *)
(*              that read or write this.tokens, two token sets;            *)
(*   PagesSpec  one caller, getAllActivities, two token sets, with weak    *)
(*              fairness on the continuations of the operation in flight;  *)
(*   QuerySpec  the URL build of request() on its own.                     *)
(***************************************************************************)
EXTENDS Integers, Sequences, FiniteSets, TLC

\* ------------------------------------------------------------------ bounds
\* The clock (whole seconds, Math.floor(Date.now() / 1000)) runs 0..MaxTime.
MaxTime == 1
\* config.refreshBuffer is drawn from 0..MaxBuffer.
MaxBuffer == 1
\* The service stops returning full pages at page MaxPages.
MaxPages == 2
\* per_page given by the caller is drawn from 1..MaxPerPage.
MaxPerPage == 2
\* A params object has up to MaxParams entries.
MaxParams == 2

\* `per_page || 200` in getAllActivities, scaled: a page size outside 1..MaxPerPage.
DefaultPerPage == MaxPerPage + 1

Tasks == {"t1", "t2"}
\* The caller that awaits every call before it makes the next one.
Caller == "t1"

\* Token strings are opaque to the client: it copies them and tests them for
\* truthiness only.  Empty stands for a falsy one ('' or undefined).
Empty == ""
Toks == {"a", "b"}
Exps == 0..(MaxTime + MaxBuffer)
Statuses == {401, 403, 404, 429, 500}

\* ------------------------------------------------------------------- state
VARIABLES
  cfg,      \* this.config: autoRefresh, refreshBuffer (fixed at construction)
  now,      \* the clock, in whole seconds
  tokens,   \* this.tokens: NoTokens or a StravaTokens record
  task,     \* per caller: the operation in flight, its locals and its history
  rateLimitInfo,  \* this.rateLimitInfo: NoRateLimitInfo or a StravaRateLimitInfo
  lastRated,      \* history: the headers of the latest API response that carried both
  query           \* a params object handed to request(), and the URL built from it

vars == <<cfg, now, tokens, task, rateLimitInfo, lastRated, query>>

rateVars == <<rateLimitInfo, lastRated>>

\* this.tokens = null
NoTokens == [absent |-> TRUE]
NoData == [absent |-> TRUE]

StravaTokens ==
  [accessToken : Toks \cup {Empty}, refreshToken : Toks \cup {Empty}, expiresAt : Exps]
\* The body the token endpoint returns on success.
StravaTokenResponse == [access_token : Toks, refresh_token : Toks, expires_at : Exps]

\* ------------------------------------------------------- rate-limit info
\* this.rateLimitInfo = null
NoRateLimitInfo == [absent |-> TRUE]

\* A header value is the sequence of its comma-separated fields, which is what
\* split(',') makes of it: '' is <<"">>.  headers.get() of a header the response
\* does not carry is null, written <<>> here (split never returns it).
NullHeader == <<>>

\* What Number() makes of a field that is not a numeral, and what destructuring
\* yields past the end of the array: two values no header number can equal.
NaN == -1
Undefined == -2

\* Number(field), for the fields the service sends here.
Number(field) ==
  CASE field = "" -> 0
    [] field = "1" -> 1
    [] field = "2" -> 2
    [] OTHER -> NaN

\* `x && ...` for a header value: null and '' are falsy.
Truthy(header) == header # NullHeader /\ header # <<"">>

\* const [first, second] = header.split(',').map(Number)
Destructure(header, i) == IF i <= Len(header) THEN Number(header[i]) ELSE Undefined

\* A response without rate-limit headers.
NoHeaders == [limit |-> NullHeader, usage |-> NullHeader]

\* The x-ratelimit-limit / x-ratelimit-usage pairs a response can carry: none,
\* one of the two, an empty one, a non-numeric one, a single number, three
\* numbers, and two well-formed pairs that differ.
RateHeaders ==
  { NoHeaders,
    [limit |-> <<"2", "2">>, usage |-> NullHeader],
    [limit |-> NullHeader, usage |-> <<"1", "2">>],
    [limit |-> <<"">>, usage |-> <<"1", "2">>],
    [limit |-> <<"x">>, usage |-> <<"1", "2">>],
    [limit |-> <<"2", "2">>, usage |-> <<"1">>],
    [limit |-> <<"2", "2", "1">>, usage |-> <<"1", "2">>],
    [limit |-> <<"2", "2">>, usage |-> <<"1", "2">>],
    [limit |-> <<"2", "2">>, usage |-> <<"2", "1">>] }

\* updateRateLimitInfo(headers): the value of this.rateLimitInfo after the call.
updateRateLimitInfo(info, headers) ==
  LET limitHeader == headers.limit
      usageHeader == headers.usage
  IN  IF Truthy(limitHeader) /\ Truthy(usageHeader)
        THEN [shortTerm |-> [usage |-> Destructure(usageHeader, 1),
                             limit |-> Destructure(limitHeader, 1)],
              longTerm |-> [usage |-> Destructure(usageHeader, 2),
                            limit |-> Destructure(limitHeader, 2)]]
        ELSE info

\* Mutant: the headers of a non-success response are not looked at.
onResponseOkOnly(info, headers, ok) ==
  IF ok THEN updateRateLimitInfo(info, headers) ELSE info

\* request(): `this.updateRateLimitInfo(response.headers)`, before response.ok is read.
onResponse(info, headers, ok) == updateRateLimitInfo(info, headers)

\* History: the response carries the header, with something in it.
Carries(header) == header \notin {NullHeader, <<"">>}

\* History: a response carrying both headers replaces the remembered one.
Rated(last, headers) ==
  IF Carries(headers.limit) /\ Carries(headers.usage) THEN headers ELSE last

\* Two token sets, one expired and one fresh at every time and buffer, and the
\* two token responses that carry them.
SomeTokens ==
  { [accessToken |-> "a", refreshToken |-> "a", expiresAt |-> 0],
    [accessToken |-> "b", refreshToken |-> "b", expiresAt |-> MaxTime + MaxBuffer] }

SomeTokenResponses ==
  { [access_token |-> tok.accessToken, refresh_token |-> tok.refreshToken,
     expires_at |-> tok.expiresAt] : tok \in SomeTokens }

IdleTask ==
  [op |-> "none", pc |-> "idle", path |-> "none", data |-> NoData, body |-> <<>>,
   err |-> "none", ret |-> "void", timers |-> {}, pending |-> {},
   calls |-> <<>>, sent |-> Empty, hdr |-> Empty, cbCount |-> 0, cbArg |-> NoData,
   page |-> 0, perPage |-> 0, acc |-> <<>>,
   \* history, read by the properties only
   arg |-> Empty, stale |-> FALSE, at |-> 0, served |-> <<>>, fired |-> FALSE,
   cause |-> "none", status |-> 0, rhdr |-> NoHeaders, answered |-> FALSE,
   caught |-> "none", own |-> Empty, cbDone |-> 0]

\* One HTTP call handed to fetch, as logged in tk.calls.  The refresh token a
\* token call sends is kept in tk.sent, the bearer token of an API call in tk.hdr.
TokenCall(grant) == [url |-> "/oauth/token", grant |-> grant, page |-> 0]

ApiCall(path, page) == [url |-> path, grant |-> "none", page |-> page]

\* A rejected promise reaching the caller of the operation (its locals are gone).
Reject(tk, kind) ==
  [tk EXCEPT !.pc = "done", !.err = kind, !.acc = <<>>, !.body = <<>>,
             !.status = 0, !.rhdr = NoHeaders, !.own = Empty]

\* A fulfilled promise reaching the caller of the operation (its locals are gone).
Resolve(tk, value) ==
  [tk EXCEPT !.pc = "done", !.ret = value, !.acc = <<>>, !.body = <<>>,
             !.rhdr = NoHeaders, !.own = Empty]

\* Mutant: testConnection lets a network error through.
testConnectionCatchRethrowsNetwork(tk, kind) ==
  IF kind = "StravaNetworkError" THEN Reject(tk, kind)
  ELSE Resolve([tk EXCEPT !.caught = kind, !.status = 0], FALSE)

\* testConnection: `catch { return false }` around `await this.getAthlete()`
testConnectionCatch(tk, kind) ==
  Resolve([tk EXCEPT !.caught = kind, !.status = 0], FALSE)

\* A rejection inside the operation: it reaches the caller, unless the operation
\* is testConnection, whose catch block takes it.
Throw(tk, kind) ==
  IF tk.op = "testConnection" THEN testConnectionCatch(tk, kind) ELSE Reject(tk, kind)

\* The timer and the fetch of a call are named by the call's place in tk.calls;
\* the timeoutId in scope is that of the latest call.
TimeoutId(tk) == Len(tk.calls)

\* setTimeout(() => controller.abort(), DEFAULT_TIMEOUT); fetch(...)
StartFetch(tk, call, pc) ==
  LET id == Len(tk.calls) + 1
  IN  [tk EXCEPT !.timers = @ \cup {id}, !.pending = @ \cup {id},
                 !.calls = Append(@, call), !.pc = pc]

\* clearTimeout(timeoutId)
ClearTimeout(tk) == [tk EXCEPT !.timers = @ \ {TimeoutId(tk)}]

\* The fetch promise settled (fulfilled or rejected).
Settle(tk) == [tk EXCEPT !.pending = @ \ {TimeoutId(tk)}]

\* The timer ran: it is no longer pending, and controller.abort() rejects the fetch.
TimerFired(tk) == Settle([tk EXCEPT !.timers = @ \ {TimeoutId(tk)}, !.fired = TRUE])

\* History: what the environment did to make the operation fail ("timeout",
\* "transport", "status", "callback"); "none" while it has done nothing of the kind.
Failed(tk, cause) == [tk EXCEPT !.cause = cause]

\* ------------------------------------------------------- token management
\* Mutant: `>=` for `>`.
hasValidTokensInclusive(tok, time) ==
  IF tok = NoTokens THEN FALSE ELSE tok.expiresAt >= time

hasValidTokens(tok, time) ==
  IF tok = NoTokens THEN FALSE ELSE tok.expiresAt > time

\* Mutant: the guard `if (!tokenToRefresh)` is missing.
refreshAccessTokenNoGuard(tk, tok, arg) ==
  LET tokenToRefresh ==
        IF arg # Empty THEN arg ELSE IF tok = NoTokens THEN Empty ELSE tok.refreshToken
  IN  StartFetch([tk EXCEPT !.sent = tokenToRefresh],
                 TokenCall("refresh_token"), "tokenFetch")

\* The synchronous head of refreshAccessToken(refreshToken?), up to its fetch.
refreshAccessToken(tk, tok, arg) ==
  LET tokenToRefresh ==
        IF arg # Empty THEN arg ELSE IF tok = NoTokens THEN Empty ELSE tok.refreshToken
  IN  IF tokenToRefresh = Empty
        THEN Throw(tk, "StravaTokenRefreshError")
        ELSE StartFetch([tk EXCEPT !.sent = tokenToRefresh],
                        TokenCall("refresh_token"), "tokenFetch")

\* Mutant: the refresh token of the response is dropped when it is stored.
StoreTokensKeepsAccessOnly(data) ==
  [accessToken |-> data.access_token,
   refreshToken |-> data.access_token,
   expiresAt |-> data.expires_at]

\* this.tokens = {accessToken: data.access_token, ...}
StoreTokens(data) ==
  [accessToken |-> data.access_token,
   refreshToken |-> data.refresh_token,
   expiresAt |-> data.expires_at]

\* Mutant: the clearTokens() call is missing.
deauthorizeKeepsTokens(tok) == tok

\* deauthorize(): this.clearTokens(), reached only when the request returned
deauthorizeTokens(tok) == NoTokens

\* exchangeAuthorizationCode: `return data`
exchangeReturn(tk) == Resolve(tk, tk.data)

\* Mutant: the callback is invoked only by a direct refreshAccessToken call.
onTokenRefreshDirectOnly(tk, tok) ==
  IF tk.op = "refreshAccessToken"
    THEN [tk EXCEPT !.pc = "callback", !.cbCount = @ + 1, !.cbArg = tok]
    ELSE [tk EXCEPT !.pc = "callback"]

\* Mutant: the callback is called and not awaited.
onTokenRefreshNotAwaited(tk, tok) ==
  IF tk.op = "refreshAccessToken"
    THEN Resolve([tk EXCEPT !.cbCount = @ + 1, !.cbArg = tok], tk.data)
    ELSE [tk EXCEPT !.pc = "preflightDone", !.cbCount = @ + 1, !.cbArg = tok]

\* `await this.config.onTokenRefresh(this.tokens)`: the call, up to its await
onTokenRefresh(tk, tok) ==
  [tk EXCEPT !.pc = "callback", !.cbCount = @ + 1, !.cbArg = tok]

\* refreshAccessToken: `return data`, to the caller or to the request that awaits it
refreshReturn(tk) ==
  IF tk.op = "refreshAccessToken" THEN Resolve(tk, tk.data)
  ELSE [tk EXCEPT !.pc = "preflightDone"]

\* Mutant: request() goes on to its fetch when its pre-flight refresh failed.
tokenCatchRequestGoesOn(tk, error) ==
  IF tk.op \notin {"exchangeAuthorizationCode", "refreshAccessToken"}
    THEN [ClearTimeout(tk) EXCEPT !.pc = "preflightDone"]
  ELSE IF error = "AbortError" THEN Throw(ClearTimeout(tk), "StravaNetworkError")
  ELSE Throw(ClearTimeout(tk), error)

\* The catch block of exchangeAuthorizationCode and of refreshAccessToken.
tokenCatch(tk, error) ==
  IF error = "AbortError" THEN Throw(ClearTimeout(tk), "StravaNetworkError")
  ELSE Throw(ClearTimeout(tk), error)

\* errors.ts, parseStravaError: the error class for an HTTP status.
parseStravaError(status) ==
  CASE status = 401 -> "StravaAuthenticationError"
    [] status = 403 -> "StravaAuthorizationError"
    [] status = 404 -> "StravaNotFoundError"
    [] status = 429 -> "StravaRateLimitError"
    [] OTHER -> "StravaApiError"

\* ------------------------------------------------------ request dispatcher
\* options.skipAuth: no endpoint method of the client sets it.
SkipAuth(path) == FALSE

\* getAuthHeaders(): the access token behind "Bearer "; Empty when it throws.
getAuthHeaders(tok) == IF tok = NoTokens THEN Empty ELSE tok.accessToken

\* Mutant: the timer is set up before the headers are built.
dispatchTimerFirst(tk, tok) ==
  IF SkipAuth(tk.path)
    THEN StartFetch(tk, ApiCall(tk.path, tk.page), "apiFetch")
  ELSE IF getAuthHeaders(tok) = Empty
    THEN Throw([tk EXCEPT !.timers = @ \cup {Len(tk.calls) + 1}], "StravaValidationError")
  ELSE StartFetch([tk EXCEPT !.hdr = getAuthHeaders(tok)],
                  ApiCall(tk.path, tk.page), "apiFetch")

\* request(), from the URL build to the fetch.
dispatch(tk, tok) ==
  IF SkipAuth(tk.path)
    THEN StartFetch(tk, ApiCall(tk.path, tk.page), "apiFetch")
  ELSE IF getAuthHeaders(tok) = Empty
    THEN Throw(tk, "StravaValidationError")
  ELSE StartFetch([tk EXCEPT !.hdr = getAuthHeaders(tok)],
                  ApiCall(tk.path, tk.page), "apiFetch")

\* Mutant: `<=` for `<`.
shouldRefreshInclusive(tok, time) == tok.expiresAt <= time + cfg.refreshBuffer

\* Mutant: the buffer is left out of the comparison.
shouldRefreshNoBuffer(tok, time) == tok.expiresAt < time

\* shouldRefresh = this.tokens.expiresAt < now + this.config.refreshBuffer
shouldRefresh(tok, time) == tok.expiresAt < time + cfg.refreshBuffer

\* Mutant: the refresh is decided but not performed.
refreshTokenIfNeededSkips(tk, tok, time) == [tk EXCEPT !.pc = "preflightDone"]

\* refreshTokenIfNeeded(), up to its first await
refreshTokenIfNeeded(tk, tok, time) ==
  IF tok = NoTokens THEN [tk EXCEPT !.pc = "preflightDone"]
  ELSE IF shouldRefresh(tok, time) THEN refreshAccessToken(tk, tok, Empty)
  ELSE [tk EXCEPT !.pc = "preflightDone"]

\* History: auto-refresh was on and the held token was inside the buffer window
\* when request() was entered.
StaleAtEntry(tok, time) ==
  cfg.autoRefresh /\ tok # NoTokens /\ tok.expiresAt - cfg.refreshBuffer < time

\* request(method, path, options), up to its first await
request(tk, tok, time, path, page) ==
  LET r == [tk EXCEPT !.path = path, !.page = page, !.data = NoData, !.hdr = Empty,
                      !.sent = Empty, !.body = <<>>, !.rhdr = NoHeaders,
                      !.answered = FALSE, !.own = getAuthHeaders(tok),
                      !.stale = StaleAtEntry(tok, time), !.at = time]
  IN  IF cfg.autoRefresh /\ tok # NoTokens /\ ~SkipAuth(path)
        THEN refreshTokenIfNeeded(r, tok, time)
        ELSE dispatch(r, tok)

\* Mutant: a request answered 429 is sent again.
requestCatchRetries(tk, error, messageHasFetch) ==
  IF tk.status = 429
    THEN StartFetch([ClearTimeout(tk) EXCEPT !.status = 0, !.rhdr = NoHeaders],
                    ApiCall(tk.path, tk.page), "apiFetch")
  ELSE IF error = "AbortError" THEN Throw(ClearTimeout(tk), "StravaNetworkError")
  ELSE IF error = "TypeError" /\ messageHasFetch
    THEN Throw(ClearTimeout(tk), "StravaNetworkError")
  ELSE Throw(ClearTimeout(tk), error)

\* Mutant: the catch block does not clear the timer.
requestCatchNoClear(tk, error, messageHasFetch) ==
  IF error = "AbortError" THEN Throw(tk, "StravaNetworkError")
  ELSE IF error = "TypeError" /\ messageHasFetch THEN Throw(tk, "StravaNetworkError")
  ELSE Throw(tk, error)

\* The catch block of request().
requestCatch(tk, error, messageHasFetch) ==
  IF error = "AbortError" THEN Throw(ClearTimeout(tk), "StravaNetworkError")
  ELSE IF error = "TypeError" /\ messageHasFetch
    THEN Throw(ClearTimeout(tk), "StravaNetworkError")
  ELSE Throw(ClearTimeout(tk), error)

\* getActivities(options): page and per_page are always given by getAllActivities.
getActivities(tk, tok, time, page) == request(tk, tok, time, "/athlete/activities", page)

\* Mutant: `page++` is missing.
getAllActivitiesLoopSamePage(tk, tok, time) ==
  LET activities == tk.body
      allActivities == tk.acc \o activities
  IN  IF Len(activities) = 0 THEN Resolve(tk, tk.acc)
      ELSE IF Len(activities) < tk.perPage
        THEN Resolve([tk EXCEPT !.acc = allActivities], allActivities)
      ELSE getActivities([tk EXCEPT !.acc = allActivities], tok, time, tk.page)

\* Mutant: the last, short page is not added to the result.
getAllActivitiesLoopDropsLast(tk, tok, time) ==
  LET activities == tk.body
      allActivities == tk.acc \o activities
  IN  IF Len(activities) = 0 THEN Resolve(tk, tk.acc)
      ELSE IF Len(activities) < tk.perPage THEN Resolve(tk, tk.acc)
      ELSE getActivities([tk EXCEPT !.acc = allActivities], tok, time, tk.page + 1)

\* getAllActivities: the loop body after `await this.getActivities(...)`.
getAllActivitiesLoop(tk, tok, time) ==
  LET activities == tk.body
      allActivities == tk.acc \o activities
  IN  IF Len(activities) = 0 THEN Resolve(tk, tk.acc)
      ELSE IF Len(activities) < tk.perPage
        THEN Resolve([tk EXCEPT !.acc = allActivities], allActivities)
      ELSE getActivities([tk EXCEPT !.acc = allActivities], tok, time, tk.page + 1)

\* The items of page p when the service returns n of them.
PageItems(p, n) == [i \in 1..n |-> <<p, i>>]

\* What the service can answer with status 2xx to the call in flight.
Bodies(tk) ==
  IF tk.path = "/athlete/activities"
    THEN {PageItems(tk.page, n) :
            n \in IF tk.page >= MaxPages THEN 0..(tk.perPage - 1) ELSE 0..(tk.perPage + 1)}
    ELSE {<<>>}

\* ------------------------------------------------------- query parameters
\* A string is the sequence of its characters.  A value of a params object is
\* undefined, a number, a boolean or a string.
UndefinedValue == [type |-> "undefined"]
Num(n) == [type |-> "number", n |-> n]
Bool(b) == [type |-> "boolean", b |-> b]
Str(chars) == [type |-> "string", s |-> chars]

\* options.params: not given, or an object with these entries in this order
NoParams == [given |-> FALSE, entries |-> <<>>]
Params(entries) == [given |-> TRUE, entries |-> entries]

DigitChar(d) == <<"0", "1", "2", "3", "4", "5", "6", "7", "8", "9">>[d + 1]

\* String(n) for a non-negative integer: its decimal digits.
RECURSIVE Digits(_)
Digits(n) == IF n < 10 THEN <<DigitChar(n)>> ELSE Digits(n \div 10) \o <<DigitChar(n % 10)>>

\* String(value)
String(value) ==
  CASE value.type = "number" -> Digits(value.n)
    [] value.type = "boolean" ->
         IF value.b THEN <<"t", "r", "u", "e">> ELSE <<"f", "a", "l", "s", "e">>
    [] value.type = "string" -> value.s
    [] OTHER -> <<"u", "n", "d", "e", "f", "i", "n", "e", "d">>

\* URLSearchParams.toString() of one character (application/x-www-form-urlencoded):
\* letters, digits and _ stay, a space becomes +, the rest is percent-encoded.
EncodeChar(ch) ==
  CASE ch = " " -> <<"+">>
    [] ch = "&" -> <<"%", "2", "6">>
    [] ch = "=" -> <<"%", "3", "D">>
    [] ch = "+" -> <<"%", "2", "B">>
    [] ch = "," -> <<"%", "2", "C">>
    [] ch = "%" -> <<"%", "2", "5">>
    [] OTHER -> <<ch>>

RECURSIVE Encode(_)
Encode(chars) ==
  IF chars = <<>> THEN <<>> ELSE EncodeChar(Head(chars)) \o Encode(Tail(chars))

\* URLSearchParams.toString(): name=value pairs joined by &
RECURSIVE toString(_)
toString(searchParams) ==
  IF searchParams = <<>> THEN <<>>
  ELSE LET first == Head(searchParams)
           pair == Encode(first.name) \o <<"=">> \o Encode(first.value)
       IN  IF Len(searchParams) = 1 THEN pair
           ELSE pair \o <<"&">> \o toString(Tail(searchParams))

\* Mutant: the `value !== undefined` test is missing.
searchParamsOfKeepsUndefined(params) ==
  [i \in 1..Len(params) |-> [name |-> params[i].key, value |-> String(params[i].value)]]

\* for (const [key, value] of Object.entries(options.params))
\*   if (value !== undefined) searchParams.append(key, String(value))
searchParamsOf(params) ==
  LET kept == SelectSeq(params, LAMBDA e : e.value # UndefinedValue)
  IN  [i \in 1..Len(kept) |-> [name |-> kept[i].key, value |-> String(kept[i].value)]]

\* request(): the URL, from the path and options.params
buildUrl(path, params) ==
  LET queryString ==
        IF params.given THEN toString(searchParamsOf(params.entries)) ELSE <<>>
  IN  IF queryString # <<>> THEN path \o <<"?">> \o queryString ELSE path

\* `x || d` for an optional number: undefined and 0 are falsy.
OrDefault(value, d) ==
  IF value = UndefinedValue \/ value = Num(0) THEN Num(d) ELSE value

\* getActivities(options): the params object it hands to request()
getActivitiesParams(options) ==
  Params(
  << [key |-> <<"b", "e", "f", "o", "r", "e">>, value |-> options.before],
     [key |-> <<"a", "f", "t", "e", "r">>, value |-> options.after],
     [key |-> <<"p", "a", "g", "e">>, value |-> OrDefault(options.page, 1)],
     [key |-> <<"p", "e", "r", "_", "p", "a", "g", "e">>,
      value |-> OrDefault(options.per_page, 30)] >>)

\* The keys and values params objects are made of here.
Keys == { <<"p", "a", "g", "e">>, <<"a", "f", "t", "e", "r">>, <<"k", "e", "y", "s">> }

Values ==
  { UndefinedValue, Num(0), Num(12), Bool(TRUE), Str(<<>>), Str(<<"a", ",", "b">>),
    Str(<<"a", " ", "&", "=">>) }

\* Object.entries(params): up to MaxParams entries, no key twice.
ParamObjects ==
  { Params(p) :
      p \in { e \in UNION { [1..n -> [key : Keys, value : Values]] : n \in 0..MaxParams } :
                \A i, j \in 1..Len(e) : e[i].key = e[j].key => i = j } }

GetActivitiesOptions ==
  [before : {UndefinedValue, Num(12)}, after : {UndefinedValue, Num(0)},
   page : {UndefinedValue, Num(0), Num(2)}, per_page : {UndefinedValue, Num(0), Num(2)}]

\* No URL is being built.
NoQuery == [absent |-> TRUE]

Paths == { <<"/", "a">>, <<"/", "a", "/", "1">> }

Init ==
  /\ cfg \in [autoRefresh : BOOLEAN, refreshBuffer : 0..MaxBuffer]
  /\ now = 0
  /\ tokens = NoTokens
  /\ task = [t \in Tasks |-> IdleTask]
  /\ rateLimitInfo = NoRateLimitInfo
  /\ lastRated = NoHeaders
  /\ query = NoQuery

Begin(t, opname) == [IdleTask EXCEPT !.op = opname]

SetTask(t, tk) == task' = [task EXCEPT ![t] = tk]

\* setTokens(tokens), with tokens from S
SetTokensFrom(t, S) ==
  /\ task[t].pc = "idle"
  /\ \E tok \in S : tokens' = tok
  /\ SetTask(t, Resolve(Begin(t, "setTokens"), "void"))
  /\ UNCHANGED <<query, rateVars, cfg, now>>

\* setTokens(tokens)
SetTokens(t) == SetTokensFrom(t, StravaTokens)

\* setTokens(tokens) with one of two token sets: one expired, one fresh
SetSomeTokens(t) == SetTokensFrom(t, SomeTokens)

\* clearTokens()
ClearTokens(t) ==
  /\ task[t].pc = "idle"
  /\ tokens' = NoTokens
  /\ SetTask(t, Resolve(Begin(t, "clearTokens"), "void"))
  /\ UNCHANGED <<query, rateVars, cfg, now>>

\* hasValidTokens()
HasValidTokens(t) ==
  /\ task[t].pc = "idle"
  /\ SetTask(t, Resolve(Begin(t, "hasValidTokens"), hasValidTokens(tokens, now)))
  /\ UNCHANGED <<query, rateVars, cfg, now, tokens>>

\* getRateLimitInfo()
GetRateLimitInfo(t) ==
  /\ task[t].pc = "idle"
  /\ SetTask(t, Resolve(Begin(t, "getRateLimitInfo"), rateLimitInfo))
  /\ UNCHANGED <<query, rateVars, cfg, now, tokens>>

\* exchangeAuthorizationCode(code), up to its fetch
ExchangeAuthorizationCode(t) ==
  /\ task[t].pc = "idle"
  /\ SetTask(t, StartFetch(Begin(t, "exchangeAuthorizationCode"),
                           TokenCall("authorization_code"), "tokenFetch"))
  /\ UNCHANGED <<query, rateVars, cfg, now, tokens>>

\* refreshAccessToken(refreshToken?), up to its fetch
RefreshAccessToken(t) ==
  /\ task[t].pc = "idle"
  /\ \E arg \in Toks \cup {Empty} :
       SetTask(t, refreshAccessToken([Begin(t, "refreshAccessToken") EXCEPT !.arg = arg],
                                     tokens, arg))
  /\ UNCHANGED <<query, rateVars, cfg, now, tokens>>

\* The token endpoint answered 2xx with a body from D: clearTimeout, then
\* `await response.json()`.
TokenResponseFrom(t, D) ==
  /\ task[t].pc = "tokenFetch"
  /\ \E d \in D :
       SetTask(t, [ClearTimeout(Settle(task[t])) EXCEPT !.pc = "tokenBody", !.data = d])
  /\ UNCHANGED <<query, rateVars, cfg, now, tokens>>

\* The token endpoint answered 2xx.
TokenResponseOk(t) == TokenResponseFrom(t, StravaTokenResponse)

\* The token endpoint answered 2xx with one of two bodies.
SomeTokenResponseOk(t) == TokenResponseFrom(t, SomeTokenResponses)

\* exchangeAuthorizationCode: the body is read, the tokens are stored, data is returned.
ExchangeBody(t) ==
  /\ task[t].pc = "tokenBody"
  /\ task[t].op = "exchangeAuthorizationCode"
  /\ tokens' = StoreTokens(task[t].data)
  /\ SetTask(t, exchangeReturn(task[t]))
  /\ UNCHANGED <<query, rateVars, cfg, now>>

\* refreshAccessToken: the body is read, the tokens are stored, the callback is called.
RefreshBody(t) ==
  /\ task[t].pc = "tokenBody"
  /\ task[t].op # "exchangeAuthorizationCode"
  /\ tokens' = StoreTokens(task[t].data)
  /\ SetTask(t, onTokenRefresh([task[t] EXCEPT !.own = task[t].data.access_token], tokens'))
  /\ UNCHANGED <<query, rateVars, cfg, now>>

\* The token endpoint answered with a non-success status: parseStravaError is thrown,
\* caught (clearTimeout again) and rethrown.
TokenResponseErr(t) ==
  /\ task[t].pc = "tokenFetch"
  /\ \E status \in Statuses :
       SetTask(t, tokenCatch(Failed(ClearTimeout(Settle(task[t])), "status"),
                             parseStravaError(status)))
  /\ UNCHANGED <<query, rateVars, cfg, now, tokens>>

\* The 30 s timer of a token call ran before the response: AbortError.
TokenTimeout(t) ==
  /\ task[t].pc = "tokenFetch"
  /\ SetTask(t, tokenCatch(Failed(TimerFired(task[t]), "timeout"), "AbortError"))
  /\ UNCHANGED <<query, rateVars, cfg, now, tokens>>

\* fetch of a token call rejected: the service could not be reached (TypeError).
TokenTransportFail(t) ==
  /\ task[t].pc = "tokenFetch"
  /\ SetTask(t, tokenCatch(Failed(Settle(task[t]), "transport"), "TypeError"))
  /\ UNCHANGED <<query, rateVars, cfg, now, tokens>>

\* The awaited onTokenRefresh callback settled.
CallbackReturn(t) ==
  /\ task[t].pc = "callback"
  /\ \E ok \in BOOLEAN :
       SetTask(t, IF ok THEN refreshReturn([task[t] EXCEPT !.cbDone = @ + 1])
                       ELSE tokenCatch(Failed(task[t], "callback"), "CallbackError"))
  /\ UNCHANGED <<query, rateVars, cfg, now, tokens>>

\* getAthlete()
GetAthlete(t) ==
  /\ task[t].pc = "idle"
  /\ SetTask(t, request(Begin(t, "getAthlete"), tokens, now, "/athlete", 0))
  /\ UNCHANGED <<query, rateVars, cfg, now, tokens>>

\* testConnection(), up to the first await of its getAthlete()
TestConnection(t) ==
  /\ task[t].pc = "idle"
  /\ SetTask(t, request(Begin(t, "testConnection"), tokens, now, "/athlete", 0))
  /\ UNCHANGED <<query, rateVars, cfg, now, tokens>>

\* deauthorize(), up to the first await of its request
Deauthorize(t) ==
  /\ task[t].pc = "idle"
  /\ SetTask(t, request(Begin(t, "deauthorize"), tokens, now, "/oauth/deauthorize", 0))
  /\ UNCHANGED <<query, rateVars, cfg, now, tokens>>

\* getAllActivities(options), up to the first await of its first page request
GetAllActivities(t) ==
  /\ task[t].pc = "idle"
  /\ \E per_page \in 0..MaxPerPage :
       LET perPage == IF per_page # 0 THEN per_page ELSE DefaultPerPage
       IN  SetTask(t, getActivities([Begin(t, "getAllActivities") EXCEPT !.perPage = perPage],
                                    tokens, now, 1))
  /\ UNCHANGED <<query, rateVars, cfg, now, tokens>>

\* `await this.refreshTokenIfNeeded()` returned: request() goes on to its fetch.
PreflightDone(t) ==
  /\ task[t].pc = "preflightDone"
  /\ SetTask(t, dispatch(task[t], tokens))
  /\ UNCHANGED <<query, rateVars, cfg, now, tokens>>

\* The API answered 2xx with headers from H: clearTimeout, updateRateLimitInfo,
\* then `await response.json()`.
ReceiveOk(t, H) ==
  /\ task[t].pc = "apiFetch"
  /\ \E body \in Bodies(task[t]), headers \in H :
       /\ rateLimitInfo' = onResponse(rateLimitInfo, headers, TRUE)
       /\ lastRated' = Rated(lastRated, headers)
       /\ SetTask(t, [ClearTimeout(Settle(task[t])) EXCEPT
                        !.pc = "apiBody", !.body = body, !.rhdr = headers,
                        !.answered = TRUE,
                        !.served = IF task[t].op = "getAllActivities"
                                     THEN Append(@, Len(body)) ELSE @])
  /\ UNCHANGED <<query, cfg, now, tokens>>

\* The API answered with a non-success status and headers from H: clearTimeout,
\* updateRateLimitInfo, then `await response.json().catch(() => ({}))`.
ReceiveErr(t, H) ==
  /\ task[t].pc = "apiFetch"
  /\ \E status \in Statuses, headers \in H :
       /\ rateLimitInfo' = onResponse(rateLimitInfo, headers, FALSE)
       /\ lastRated' = Rated(lastRated, headers)
       /\ SetTask(t, [Failed(ClearTimeout(Settle(task[t])), "status") EXCEPT
                        !.pc = "apiErrBody", !.status = status, !.rhdr = headers])
  /\ UNCHANGED <<query, cfg, now, tokens>>

\* A 2xx response of a service that sends no rate-limit headers.
ApiResponseOk(t) == ReceiveOk(t, {NoHeaders})

\* A non-success response of a service that sends no rate-limit headers.
ApiResponseErr(t) == ReceiveErr(t, {NoHeaders})

\* A 2xx response of a service that sends rate-limit headers, or not, as it likes.
RatedResponseOk(t) == ReceiveOk(t, RateHeaders)

\* A non-success response of such a service.
RatedResponseErr(t) == ReceiveErr(t, RateHeaders)

\* The error body was read (or was not JSON): parseStravaError is thrown, caught
\* (clearTimeout again) and rethrown.
ApiErrorBody(t) ==
  /\ task[t].pc = "apiErrBody"
  /\ SetTask(t, requestCatch(task[t], parseStravaError(task[t].status), FALSE))
  /\ UNCHANGED <<query, rateVars, cfg, now, tokens>>

\* The 30 s timer of an API call ran before the response: AbortError.
ApiTimeout(t) ==
  /\ task[t].pc = "apiFetch"
  /\ SetTask(t, requestCatch(Failed(TimerFired(task[t]), "timeout"), "AbortError", FALSE))
  /\ UNCHANGED <<query, rateVars, cfg, now, tokens>>

\* fetch of an API call rejected with a TypeError, whose message may name fetch.
ApiTransportFail(t) ==
  /\ task[t].pc = "apiFetch"
  /\ \E messageHasFetch \in BOOLEAN :
       SetTask(t, requestCatch(Failed(Settle(task[t]), "transport"), "TypeError",
                               messageHasFetch))
  /\ UNCHANGED <<query, rateVars, cfg, now, tokens>>

\* getAthlete: request() returned the parsed body.
AthleteBody(t) ==
  /\ task[t].pc = "apiBody"
  /\ task[t].op = "getAthlete"
  /\ SetTask(t, Resolve(task[t], task[t].body))
  /\ UNCHANGED <<query, rateVars, cfg, now, tokens>>

\* testConnection: getAthlete() returned, `return true`.
TestConnectionBody(t) ==
  /\ task[t].pc = "apiBody"
  /\ task[t].op = "testConnection"
  /\ SetTask(t, Resolve(task[t], TRUE))
  /\ UNCHANGED <<query, rateVars, cfg, now, tokens>>

\* deauthorize: request() returned, then this.clearTokens().
DeauthorizeBody(t) ==
  /\ task[t].pc = "apiBody"
  /\ task[t].op = "deauthorize"
  /\ tokens' = deauthorizeTokens(tokens)
  /\ SetTask(t, Resolve(task[t], "void"))
  /\ UNCHANGED <<query, rateVars, cfg, now>>

\* getAllActivities: a page arrived; the loop ends or asks for the next page.
ActivitiesBody(t) ==
  /\ task[t].pc = "apiBody"
  /\ task[t].op = "getAllActivities"
  /\ SetTask(t, getAllActivitiesLoop(task[t], tokens, now))
  /\ UNCHANGED <<query, rateVars, cfg, now, tokens>>

\* The caller took the result; the task is free for the next call.
Return(t) ==
  /\ task[t].pc = "done"
  /\ SetTask(t, IdleTask)
  /\ UNCHANGED <<query, rateVars, cfg, now, tokens>>

\* The clock moves on.
Tick ==
  /\ now < MaxTime
  /\ now' = now + 1
  /\ UNCHANGED <<query, rateVars, cfg, tokens, task>>


Start(t) ==
  \/ SetTokens(t)
  \/ ClearTokens(t)
  \/ HasValidTokens(t)
  \/ ExchangeAuthorizationCode(t)
  \/ RefreshAccessToken(t)
  \/ GetAthlete(t)
  \/ TestConnection(t)
  \/ Deauthorize(t)
  \/ GetAllActivities(t)

Step(t) ==
  \/ TokenResponseOk(t)
  \/ ExchangeBody(t)
  \/ RefreshBody(t)
  \/ TokenResponseErr(t)
  \/ TokenTimeout(t)
  \/ TokenTransportFail(t)
  \/ CallbackReturn(t)
  \/ PreflightDone(t)
  \/ ApiResponseOk(t)
  \/ ApiResponseErr(t)
  \/ ApiErrorBody(t)
  \/ ApiTimeout(t)
  \/ ApiTransportFail(t)
  \/ AthleteBody(t)
  \/ TestConnectionBody(t)
  \/ DeauthorizeBody(t)
  \/ ActivitiesBody(t)
  \/ Return(t)

\* One caller, every call awaited before the next is made.
Next ==
  \/ Start(Caller)
  \/ Step(Caller)
  \/ Tick

Spec == Init /\ [][Next]_vars

\* The same caller and a service that sends rate-limit headers, for what the
\* client keeps of them: every operation that ends in one request, and the
\* token calls of their pre-flight refreshes.
RateStart(t) ==
  \/ SetTokens(t)
  \/ GetRateLimitInfo(t)
  \/ GetAthlete(t)
  \/ Deauthorize(t)

RateStep(t) ==
  \/ TokenResponseOk(t)
  \/ RefreshBody(t)
  \/ TokenResponseErr(t)
  \/ TokenTimeout(t)
  \/ TokenTransportFail(t)
  \/ CallbackReturn(t)
  \/ PreflightDone(t)
  \/ RatedResponseOk(t)
  \/ RatedResponseErr(t)
  \/ ApiErrorBody(t)
  \/ ApiTimeout(t)
  \/ ApiTransportFail(t)
  \/ AthleteBody(t)
  \/ DeauthorizeBody(t)
  \/ Return(t)

RateNext ==
  \/ RateStart(Caller)
  \/ RateStep(Caller)
  \/ Tick

RateSpec == Init /\ [][RateNext]_vars

\* Two callers that do not await each other: the calls of one run between the
\* awaits of the other.  The operations are those that read or write this.tokens.
ConcStart(t) ==
  \/ SetSomeTokens(t)
  \/ ClearTokens(t)
  \/ ExchangeAuthorizationCode(t)
  \/ GetAthlete(t)
  \/ Deauthorize(t)

ConcStep(t) ==
  \/ SomeTokenResponseOk(t)
  \/ ExchangeBody(t)
  \/ RefreshBody(t)
  \/ TokenResponseErr(t)
  \/ TokenTimeout(t)
  \/ TokenTransportFail(t)
  \/ CallbackReturn(t)
  \/ PreflightDone(t)
  \/ ApiResponseOk(t)
  \/ ApiResponseErr(t)
  \/ ApiErrorBody(t)
  \/ ApiTimeout(t)
  \/ ApiTransportFail(t)
  \/ AthleteBody(t)
  \/ DeauthorizeBody(t)
  \/ Return(t)

\* A client built with auto-refresh on; the clock stands still meanwhile.
ConcInit ==
  /\ Init
  /\ cfg = [autoRefresh |-> TRUE, refreshBuffer |-> MaxBuffer]

ConcNext == \E t \in Tasks : ConcStart(t) \/ ConcStep(t)

ConcSpec == ConcInit /\ [][ConcNext]_vars

\* The same caller running getAllActivities, with an expired or a fresh token
\* set, against a service that returns a short or empty page at page MaxPages
\* at the latest.  Every await of the code
\* settles: a fetch by its answer, its rejection or its 30 s timer, a body once
\* the answer is there, the callback by returning or throwing; so a step of an
\* operation in flight that stays possible is taken.
PagesStart(t) ==
  \/ SetSomeTokens(t)
  \/ GetAllActivities(t)

PagesStep(t) ==
  \/ SomeTokenResponseOk(t)
  \/ RefreshBody(t)
  \/ TokenResponseErr(t)
  \/ TokenTimeout(t)
  \/ TokenTransportFail(t)
  \/ CallbackReturn(t)
  \/ PreflightDone(t)
  \/ ApiResponseOk(t)
  \/ ApiResponseErr(t)
  \/ ApiErrorBody(t)
  \/ ApiTimeout(t)
  \/ ApiTransportFail(t)
  \/ ActivitiesBody(t)
  \/ Return(t)

PagesNext ==
  \/ PagesStart(Caller)
  \/ PagesStep(Caller)
  \/ Tick

PagesSpec == Init /\ [][PagesNext]_vars /\ WF_vars(PagesStep(Caller))

\* The URL build of request() on its own: any path, and any params object or
\* the one getActivities makes of its options.
QueryInit ==
  /\ cfg \in [autoRefresh : BOOLEAN, refreshBuffer : 0..MaxBuffer]
  /\ now = 0
  /\ tokens = NoTokens
  /\ task = [t \in Tasks |-> IdleTask]
  /\ rateLimitInfo = NoRateLimitInfo
  /\ lastRated = NoHeaders
  /\ \E path \in Paths :
       \E params \in {NoParams} \cup ParamObjects
                       \cup {getActivitiesParams(o) : o \in GetActivitiesOptions} :
         query = [path |-> path, params |-> params, built |-> FALSE, url |-> <<>>]

\* let url = `${baseUrl}${path}` ... url += `?${queryString}`
BuildUrl ==
  /\ query # NoQuery
  /\ ~query.built
  /\ query' = [query EXCEPT !.built = TRUE, !.url = buildUrl(query.path, query.params)]
  /\ UNCHANGED <<rateVars, cfg, now, tokens, task>>

QueryNext == BuildUrl

QuerySpec == QueryInit /\ [][QueryNext]_vars

\* ------------------------------------------------------------- properties
\* The triple a token response carries.
Triple(d) ==
  [accessToken |-> d.access_token, refreshToken |-> d.refresh_token,
   expiresAt |-> d.expires_at]

Dispatched(tk) == tk.pc \in {"apiFetch", "apiBody"}

\* The error the operation ended with, at its caller or in testConnection's catch.
Raised(tk) == IF tk.op = "testConnection" THEN tk.caught ELSE tk.err

IsTokenCall(c) == c.url = "/oauth/token"

\* The calls a task made to the token endpoint during its operation.
TokenCalls(tk) == SelectSeq(tk.calls, IsTokenCall)

IsPageCall(c) == c.url = "/athlete/activities"

\* The page requests a task made during its operation.
PageCalls(tk) == SelectSeq(tk.calls, IsPageCall)

\* C1: a request entered with auto-refresh on and the held token inside the
\* buffer window (expiresAt < now + refreshBuffer) has, once its API call is
\* dispatched, a refresh call to the token endpoint right before that API call,
\* and its Authorization header carries the access token that refresh returned.
C1_RefreshBeforeHeader ==
  \A t \in Tasks :
    (Dispatched(task[t]) /\ task[t].stale) =>
      LET c == task[t].calls
          n == Len(c)
      IN  /\ n >= 2
          /\ c[n - 1].url = "/oauth/token"
          /\ c[n - 1].grant = "refresh_token"
          /\ c[n].url = task[t].path
          /\ task[t].data # NoData
          /\ task[t].hdr = task[t].data.access_token

C1_Witness ==
  \E t \in Tasks :
    /\ task[t].pc = "apiFetch"
    /\ task[t].stale
    /\ task[t].sent # Empty
    /\ task[t].hdr = "b"
    /\ tokens.accessToken = "b"

\* C2 as stated: an API call dispatched with auto-refresh on and a token held
\* carries a token outside the buffer window (expiresAt >= now + refreshBuffer).
\* The clock is read here at the entry of the request, the earliest (and least
\* demanding) moment; at the dispatch itself it can only be later.
C2_Original ==
  \A t \in Tasks :
    (task[t].pc = "apiFetch" /\ cfg.autoRefresh /\ tokens # NoTokens) =>
      tokens.expiresAt >= task[t].at + cfg.refreshBuffer

\* C2, amended: a request dispatched with auto-refresh on carries the held access
\* token, and that token either was outside the buffer window when the request's
\* pre-flight check ran (expiresAt >= clock at entry + refreshBuffer) and no refresh
\* was issued, or is the one the request's own pre-flight refresh returned and
\* stored, whatever expires_at the token endpoint gave it.
C2_FreshAtCheckOrRefreshed ==
  \A t \in Tasks :
    (Dispatched(task[t]) /\ cfg.autoRefresh) =>
      /\ tokens # NoTokens
      /\ task[t].hdr = tokens.accessToken
      /\ \/ /\ ~task[t].stale
            /\ task[t].data = NoData
            /\ tokens.expiresAt >= task[t].at + cfg.refreshBuffer
            /\ LET n == Len(task[t].calls)
               IN  n = 1 \/ ~IsTokenCall(task[t].calls[n - 1])
         \/ /\ task[t].stale
            /\ task[t].data # NoData
            /\ tokens = Triple(task[t].data)

\* A request is in flight with the token its own refresh returned, and that
\* token is inside the buffer window.
C2_Witness ==
  \E t \in Tasks :
    /\ task[t].pc = "apiFetch"
    /\ cfg.autoRefresh
    /\ task[t].stale
    /\ task[t].data # NoData
    /\ task[t].at = now
    /\ tokens.expiresAt < now + cfg.refreshBuffer

\* C3: once exchangeAuthorizationCode or refreshAccessToken has returned
\* successfully, the client holds exactly the (access_token, refresh_token,
\* expires_at) triple of the response to that call.
C3_HoldsReturnedTriple ==
  \A t \in Tasks :
    (/\ task[t].pc = "done"
     /\ task[t].err = "none"
     /\ task[t].op \in {"exchangeAuthorizationCode", "refreshAccessToken"})
    => /\ task[t].data # NoData
       /\ task[t].ret = task[t].data
       /\ tokens # NoTokens
       /\ tokens.accessToken = task[t].data.access_token
       /\ tokens.refreshToken = task[t].data.refresh_token
       /\ tokens.expiresAt = task[t].data.expires_at

\* A refresh returned a triple whose three fields all differ from what was sent
\* or could be confused: the refresh token was rotated and differs from the
\* access token.
C3_Witness ==
  \E t \in Tasks :
    /\ task[t].pc = "done"
    /\ task[t].err = "none"
    /\ task[t].op = "refreshAccessToken"
    /\ task[t].sent = "a"
    /\ tokens = [accessToken |-> "a", refreshToken |-> "b", expiresAt |-> 1]

\* C4: onTokenRefresh has been invoked once for every refresh call whose
\* response replaced the tokens, each time with the triple of that response, and
\* never otherwise: not by a refresh that failed before the tokens were replaced,
\* not by exchangeAuthorizationCode, setTokens or clearTokens.
C4_CallbackOncePerRefresh ==
  \A t \in Tasks :
    LET tk == task[t]
        n == Len(tk.calls)
        \* the latest call is a refresh whose response has not replaced the tokens
        unreplaced ==
          /\ n > 0
          /\ IsTokenCall(tk.calls[n])
          /\ \/ tk.pc \in {"tokenFetch", "tokenBody"}
             \/ tk.pc = "done" /\ tk.data = NoData
    IN  /\ tk.op \in {"exchangeAuthorizationCode", "setTokens", "clearTokens",
                      "hasValidTokens", "none"}
             => tk.cbCount = 0 /\ tk.cbArg = NoData
        /\ tk.op \notin {"exchangeAuthorizationCode", "setTokens", "clearTokens",
                         "hasValidTokens", "none"}
             => /\ tk.cbCount = Len(TokenCalls(tk)) - (IF unreplaced THEN 1 ELSE 0)
                /\ (tk.data # NoData /\ tk.pc # "tokenBody")
                     => tk.cbArg = Triple(tk.data)
        /\ (tk.op = "refreshAccessToken" /\ tk.pc = "done" /\ tk.err = "none")
             => tk.cbCount = 1 /\ tk.cbArg = Triple(tk.data)

\* A request whose pre-flight check refreshed returned: one callback call.
C4_Witness ==
  \E t \in Tasks :
    /\ task[t].op = "getAthlete"
    /\ task[t].pc = "done"
    /\ task[t].err = "none"
    /\ Len(TokenCalls(task[t])) = 1
    /\ task[t].cbCount = 1
    /\ task[t].cbArg = tokens

\* C5 as stated: after deauthorize() finishes, by success or by failure, the
\* local token state is absent.  Taken here in the case where the revoke call
\* was sent (it then succeeded, was refused, timed out or could not be delivered).
C5_Original ==
  \A t \in Tasks :
    (/\ task[t].op = "deauthorize"
     /\ task[t].pc = "done"
     /\ task[t].calls # <<>>
     /\ task[t].calls[Len(task[t].calls)].url = "/oauth/deauthorize")
    => tokens = NoTokens

\* C5, amended: after deauthorize() finishes successfully the local token state
\* is absent; when it fails the error reaches the caller and deauthorize does not
\* clear the tokens: while it runs, the tokens change only when its pre-flight
\* refresh stores the returned triple, or when it clears them on success.
C5_ClearsOnlyOnSuccess ==
  /\ [](\A t \in Tasks :
          (task[t].op = "deauthorize" /\ task[t].pc = "done") =>
            /\ task[t].err = "none" => tokens = NoTokens
            /\ task[t].err # "none" => task[t].ret = "void")
  /\ [][\A t \in Tasks :
          task'[t].op = "deauthorize" =>
            \/ tokens' = tokens
            \/ /\ task[t].pc = "tokenBody"
               /\ tokens' = Triple(task[t].data)
            \/ /\ task'[t].pc = "done"
               /\ task'[t].err = "none"
               /\ tokens' = NoTokens]_vars

\* The revoke call was answered with a non-success status: deauthorize failed
\* and the tokens are still held.
C5_Witness ==
  \E t \in Tasks :
    /\ task[t].op = "deauthorize"
    /\ task[t].pc = "done"
    /\ task[t].err \notin {"none", "StravaNetworkError", "TypeError"}
    /\ Len(task[t].calls) = 1
    /\ tokens # NoTokens

\* C6: refreshAccessToken called with no refresh token argument while no refresh
\* token is held fails with a token-refresh error in that very step, with no HTTP
\* call, no timer, the token state unchanged and no callback; and whenever a
\* token-refresh error is raised (also by the pre-flight refresh of a request),
\* the raising step issues no call, changes no token and invokes no callback, and
\* the operation does nothing afterwards but hand the error to its caller.
C6_NoRefreshTokenFailsFast ==
  [][\A t \in Tasks :
       /\ (/\ task[t].pc = "idle"
           /\ task'[t].op = "refreshAccessToken"
           /\ task'[t].arg = Empty
           /\ (tokens = NoTokens \/ tokens.refreshToken = Empty))
          => /\ task'[t].pc = "done"
             /\ task'[t].err = "StravaTokenRefreshError"
             /\ task'[t].calls = <<>>
       /\ (task'[t].err = "StravaTokenRefreshError" /\ task[t].err = "none")
          => /\ task'[t].pc = "done"
             /\ task'[t].calls = task[t].calls
             /\ task'[t].timers = {}
             /\ task'[t].pending = {}
             /\ task'[t].cbCount = task[t].cbCount
             /\ tokens' = tokens
       /\ (task[t].pc = "done" /\ task[t].err = "StravaTokenRefreshError")
          => task'[t] \in {task[t], IdleTask}]_vars

\* refreshAccessToken() failed for want of a refresh token while a TokenSet with
\* an empty refresh token is held.
C6_Witness ==
  \E t \in Tasks :
    /\ task[t].op = "refreshAccessToken"
    /\ task[t].pc = "done"
    /\ task[t].err = "StravaTokenRefreshError"
    /\ task[t].arg = Empty
    /\ tokens # NoTokens
    /\ tokens.accessToken = "a"

\* C7: a request operation started while no TokenSet is held fails in that very
\* step with a validation error, with no HTTP call issued and no timer started;
\* and whenever a validation error is raised, the raising step issues no call and
\* starts no timer.
C7_NoTokenFailsBeforeDispatch ==
  [][\A t \in Tasks :
       /\ (/\ task[t].pc = "idle"
           /\ task'[t].op \in {"getAthlete", "deauthorize", "getAllActivities"}
           /\ tokens = NoTokens)
          => /\ task'[t].pc = "done"
             /\ task'[t].err = "StravaValidationError"
             /\ task'[t].calls = <<>>
       /\ (task'[t].err = "StravaValidationError" /\ task[t].err = "none")
          => /\ task'[t].pc = "done"
             /\ task'[t].calls = task[t].calls
             /\ task'[t].timers = {}
             /\ task'[t].pending = {}
             /\ task'[t].hdr = Empty]_vars

\* getAthlete() after a successful deauthorize(): a validation error, no call.
C7_Witness ==
  \E t \in Tasks :
    /\ task[t].op = "getAthlete"
    /\ task[t].pc = "done"
    /\ task[t].err = "StravaValidationError"
    /\ task[t].calls = <<>>
    /\ task[t].timers = {}
    /\ tokens = NoTokens
    /\ cfg.autoRefresh

\* C8: hasValidTokens() returns true exactly when a TokenSet is held and its
\* expiresAt is strictly greater than the clock at the call.
C8_HasValidTokensConsistent ==
  [][\A t \in Tasks :
       (task[t].pc = "idle" /\ task'[t].op = "hasValidTokens")
       => /\ task'[t].pc = "done"
          /\ task'[t].err = "none"
          /\ task'[t].ret \in BOOLEAN
          /\ task'[t].ret <=> (tokens # NoTokens /\ tokens.expiresAt > now)
          /\ tokens' = tokens]_vars

\* hasValidTokens() answered false for a held token that expires at this very
\* second, after the clock has moved.
C8_Witness ==
  \E t \in Tasks :
    /\ task[t].op = "hasValidTokens"
    /\ task[t].pc = "done"
    /\ task[t].ret = FALSE
    /\ tokens # NoTokens
    /\ tokens.expiresAt = now
    /\ now > 0

\* The concatenation of the pages 1..k, page i holding lens[i] items.
RECURSIVE PagesConcat(_, _)
PagesConcat(lens, k) ==
  IF k = 0 THEN <<>> ELSE PagesConcat(lens, k - 1) \o PageItems(k, lens[k])

\* C9: when the service returned k-1 pages of exactly per_page items and then a
\* page that is empty or shorter, a getAllActivities that returned has issued
\* exactly k page requests, for the pages 1..k in this order, and returns the
\* items of all the pages in page order; and it never has two page requests in
\* flight at once.
C9_PagesInOrder ==
  \A t \in Tasks :
    task[t].op = "getAllActivities" =>
      /\ Cardinality(task[t].pending) <= 1
      /\ LET tk == task[t]
             k == Len(tk.served)
         IN  (/\ tk.pc = "done"
              /\ tk.err = "none"
              /\ k > 0
              /\ \A i \in 1..(k - 1) : tk.served[i] = tk.perPage
              /\ tk.served[k] < tk.perPage)
             => /\ Len(PageCalls(tk)) = k
                /\ \A i \in 1..k : PageCalls(tk)[i].page = i
                /\ tk.ret = PagesConcat(tk.served, k)

\* per_page = 2, the service returned 2 items and then 1: 3 items, 2 requests.
C9_Witness ==
  \E t \in Tasks :
    /\ task[t].op = "getAllActivities"
    /\ task[t].pc = "done"
    /\ task[t].err = "none"
    /\ task[t].perPage = 2
    /\ task[t].served = <<2, 1>>
    /\ task[t].ret = <<<<1, 1>>, <<1, 2>>, <<2, 1>>>>

\* C10: a call in flight owns exactly one pending timer, its own; once the call's
\* request is past its fetch (response received, failed, timed out, finished) no
\* timer of the task is pending; and an operation whose timer ran before the
\* response has its fetch cancelled and fails with a network error.
C10_TimerClearedOnEveryPath ==
  \A t \in Tasks :
    LET tk == task[t]
    IN  /\ tk.pc \in {"tokenFetch", "apiFetch"}
             => tk.timers = {Len(tk.calls)} /\ tk.pending = {Len(tk.calls)}
        /\ tk.pc \notin {"tokenFetch", "apiFetch"}
             => tk.timers = {} /\ tk.pending = {}
        /\ tk.fired
             => tk.pc = "done" /\ Raised(tk) = "StravaNetworkError"

\* An API call could not be delivered (TypeError): the request has failed and
\* its timer is not pending.
C10_Witness ==
  \E t \in Tasks :
    /\ task[t].op = "getAthlete"
    /\ task[t].pc = "done"
    /\ task[t].err = "TypeError"
    /\ Len(task[t].calls) = 2
    /\ task[t].timers = {}

\* The operation of the task is one of the two token operations.
IsTokenOp(tk) == tk.op \in {"exchangeAuthorizationCode", "refreshAccessToken"}

\* C11: when exchangeAuthorizationCode or refreshAccessToken has failed because
\* its call timed out or because the service could not be reached, the error the
\* caller holds is a StravaNetworkError and the token endpoint was called once.
C11_TokenNetworkFailureKind ==
  \A t \in Tasks :
    (/\ IsTokenOp(task[t])
     /\ task[t].pc = "done"
     /\ task[t].cause \in {"timeout", "transport"})
    => /\ task[t].err = "StravaNetworkError"
       /\ Len(task[t].calls) = 1

\* The field is a decimal numeral.
Numeral(field) == field # "" /\ Number(field) # NaN

\* The header is two comma-separated numbers.
WellFormed(header) == Len(header) = 2 /\ \A i \in 1..2 : Numeral(header[i])

\* Task t receives the response to its API call in this step.
ResponseStep(t) == task[t].pc = "apiFetch" /\ task'[t].pc \in {"apiBody", "apiErrBody"}

\* C12: a response one of whose rate-limit headers is missing, or is not two
\* comma-separated numbers, leaves this.rateLimitInfo as it was before.
C12_MissingOrMalformedUntouched ==
  [][\A t \in Tasks :
       (/\ ResponseStep(t)
        /\ ~(WellFormed(task'[t].rhdr.limit) /\ WellFormed(task'[t].rhdr.usage)))
       => rateLimitInfo' = rateLimitInfo]_vars

\* The operation did what it was called for: its request was answered 2xx and
\* read, or its token call was, and nothing the environment did made it fail.
Succeeded(tk) ==
  CASE tk.op \in {"getAthlete", "testConnection", "deauthorize", "getAllActivities"} ->
         tk.answered /\ tk.cause = "none"
    [] IsTokenOp(tk) -> tk.data # NoData /\ tk.cause = "none"
    [] OTHER -> TRUE

\* C13: a finished testConnection holds no error: it returned true when its
\* athlete request succeeded and false when that request failed in any way.  Any
\* other finished operation holds an error exactly when it did not succeed, and
\* no error of it was caught on the way.
C13_OnlyTestConnectionSwallows ==
  \A t \in Tasks :
    task[t].pc = "done" =>
      IF task[t].op = "testConnection"
        THEN /\ task[t].err = "none"
             /\ task[t].ret \in BOOLEAN
             /\ task[t].ret = Succeeded(task[t])
             /\ (task[t].caught = "none") = Succeeded(task[t])
        ELSE /\ (task[t].err = "none") = Succeeded(task[t])
             /\ task[t].caught = "none"

\* testConnection returned false because the onTokenRefresh callback of its
\* pre-flight refresh threw.
C13_Witness ==
  \E t \in Tasks :
    /\ task[t].pc = "done"
    /\ task[t].op = "testConnection"
    /\ task[t].ret = FALSE
    /\ task[t].cause = "callback"
    /\ task[t].caught = "CallbackError"

\* Reading a URL back.  The pieces of chars between the occurrences of sep.
RECURSIVE Split(_, _)
Split(chars, sep) ==
  IF \A i \in 1..Len(chars) : chars[i] # sep THEN <<chars>>
  ELSE LET i == CHOOSE k \in 1..Len(chars) :
                  chars[k] = sep /\ \A j \in 1..(k - 1) : chars[j] # sep
       IN  <<SubSeq(chars, 1, i - 1)>> \o Split(SubSeq(chars, i + 1, Len(chars)), sep)

\* The character a percent escape stands for.
Unescape(hi, lo) ==
  CASE <<hi, lo>> = <<"2", "6">> -> "&"
    [] <<hi, lo>> = <<"3", "D">> -> "="
    [] <<hi, lo>> = <<"2", "B">> -> "+"
    [] <<hi, lo>> = <<"2", "C">> -> ","
    [] <<hi, lo>> = <<"2", "5">> -> "%"
    [] OTHER -> "?"

\* The text a form-urlencoded name or value stands for.
RECURSIVE Decode(_)
Decode(chars) ==
  IF chars = <<>> THEN <<>>
  ELSE IF Head(chars) = "+" THEN <<" ">> \o Decode(Tail(chars))
  ELSE IF Head(chars) = "%" /\ Len(chars) >= 3
    THEN <<Unescape(chars[2], chars[3])>> \o Decode(SubSeq(chars, 4, Len(chars)))
  ELSE <<Head(chars)>> \o Decode(Tail(chars))

HasQuestionMark(url) == \E i \in 1..Len(url) : url[i] = "?"

\* The <<key, value>> pairs a URL carries in its query string, in order.
QueryPairs(url) ==
  IF ~HasQuestionMark(url) THEN <<>>
  ELSE LET queryString == SubSeq(url, Len(Split(url, "?")[1]) + 2, Len(url))
           pairs == Split(queryString, "&")
       IN  [i \in 1..Len(pairs) |->
              LET kv == Split(pairs[i], "=")
              IN  IF Len(kv) = 2 THEN <<Decode(kv[1]), Decode(kv[2])>> ELSE <<pairs[i]>>]

\* The entries of a params object whose value is not undefined, each with its
\* value as a string.
PresentPairs(params) ==
  LET present == SelectSeq(params.entries, LAMBDA e : e.value.type # "undefined")
  IN  [i \in 1..Len(present) |-> <<present[i].key, String(present[i].value)>>]

\* C14: the URL request() builds is the path followed, when some value of the
\* params object is not undefined, by '?' and one key=value pair for each such
\* entry, in order, with the value as String() gives it; an entry whose value is
\* undefined does not appear, and when there is no pair there is no '?'.
C14_QueryHasExactlyPresentKeys ==
  (query # NoQuery /\ query.built) =>
    /\ QueryPairs(query.url) = PresentPairs(query.params)
    /\ Split(query.url, "?")[1] = query.path
    /\ HasQuestionMark(query.url) = (PresentPairs(query.params) # <<>>)

\* {after: undefined, page: 12} has become ?page=12.
C14_Witness ==
  /\ query # NoQuery
  /\ query.built
  /\ query.params.given
  /\ Len(query.params.entries) = 2
  /\ query.params.entries[1] = [key |-> <<"a", "f", "t", "e", "r">>, value |-> UndefinedValue]
  /\ query.url = query.path \o <<"?", "p", "a", "g", "e", "=", "1", "2">>

\* C15: with several operations in flight, the access token in the
\* Authorization header of a dispatched request is the one the request's own
\* pre-flight check looked at or, when it refreshed, the one its own refresh
\* stored: no write of another operation in between shows in the header.
C15_AttachesOwnToken ==
  \A t \in Tasks : task[t].pc = "apiFetch" => task[t].hdr = task[t].own

\* The task is waiting for the answer to a refresh call.
Refreshing(tk) ==
  tk.pc = "tokenFetch" /\ tk.calls[Len(tk.calls)].grant = "refresh_token"

\* C16: no two refresh calls carrying the same refresh token are in flight at
\* the same time.
C16_NoDuplicateRefresh ==
  \A t, u \in Tasks :
    (t # u /\ Refreshing(task[t]) /\ Refreshing(task[u])) => task[t].sent # task[u].sent

\* The operations that go through request().
IsRequestOp(tk) ==
  tk.op \in {"getAthlete", "testConnection", "deauthorize", "getAllActivities"}

\* The error is the one refreshAccessToken ends with after a token call that
\* failed by cause: for a non-success status, whatever was made of the response.
IsRefreshError(error, cause) ==
  CASE cause = "timeout" -> error = "StravaNetworkError"
    [] cause = "transport" -> error = "TypeError"
    [] cause = "status" ->
         error \notin {"none", "StravaNetworkError", "TypeError", "CallbackError",
                       "StravaValidationError", "StravaTokenRefreshError"}
    [] OTHER -> FALSE

\* C17: while a request waits for its pre-flight refresh this.tokens does not
\* change, and when the token endpoint fails that refresh (status, timeout,
\* transport) the request ends in the same step with the refresh's error, without
\* a further call, with this.tokens as it was and without a call of onTokenRefresh.
C17_FailedPreflightStopsRequest ==
  [][\A t \in Tasks :
       /\ (IsRequestOp(task'[t]) /\ task'[t].pc = "tokenFetch") => tokens' = tokens
       /\ (/\ IsRequestOp(task[t])
           /\ task[t].pc = "tokenFetch"
           /\ task'[t].cause \in {"status", "timeout", "transport"})
          => /\ task'[t].pc = "done"
             /\ task'[t].calls = task[t].calls
             /\ tokens' = tokens
             /\ task'[t].cbCount = task[t].cbCount
             /\ IsRefreshError(IF task[t].op = "testConnection"
                                  THEN task'[t].caught ELSE task'[t].err,
                                task'[t].cause)]_vars

\* getAthlete ended with the error of its pre-flight refresh, which the token
\* endpoint answered with a non-success status: one call, no callback, tokens held.
C17_Witness ==
  \E t \in Tasks :
    /\ task[t].op = "getAthlete"
    /\ task[t].pc = "done"
    /\ task[t].cause = "status"
    /\ task[t].err # "none"
    /\ Len(task[t].calls) = 1
    /\ IsTokenCall(task[t].calls[1])
    /\ task[t].cbCount = 0
    /\ tokens # NoTokens

\* Task t enters request() in this step: an operation starts, or getAllActivities
\* asks for its next page.
EntryStep(t) ==
  /\ IsRequestOp(task'[t])
  /\ \/ task[t].pc = "idle" /\ task'[t].pc # "idle"
     \/ task[t].pc = "apiBody" /\ task'[t].page = task[t].page + 1

\* Task t sends a refresh call in this step.
RefreshIssued(t) ==
  /\ task'[t].pc = "tokenFetch"
  /\ task'[t].calls = Append(task[t].calls, TokenCall("refresh_token"))

\* The four conditions of the pre-flight refresh, on the state request() is entered in.
RefreshDue ==
  /\ cfg.autoRefresh
  /\ tokens # NoTokens
  /\ ~SkipAuth("any")
  /\ tokens.expiresAt < now + cfg.refreshBuffer

\* Task t builds its headers in this step and sends its API call with the held
\* access token, or ends with StravaValidationError when there is none to attach.
AttachesHeld(t) ==
  IF getAuthHeaders(tokens) = Empty
    THEN /\ task'[t].pc = "done"
         /\ Raised(task'[t]) = "StravaValidationError"
         /\ task'[t].calls = task[t].calls
    ELSE /\ task'[t].pc = "apiFetch"
         /\ task'[t].hdr = tokens.accessToken
         /\ task'[t].calls = Append(task[t].calls, ApiCall(task'[t].path, task'[t].page))

\* C18 as stated: a request sends a refresh call exactly when auto-refresh is on,
\* a TokenSet is held, skipAuth is not set and expiresAt < now + refreshBuffer;
\* otherwise it sends none and goes on with the held access token.
C18_Original ==
  [][\A t \in Tasks :
       EntryStep(t) =>
         /\ RefreshIssued(t) = RefreshDue
         /\ ~RefreshDue =>
              /\ tokens' = tokens
              /\ task'[t].calls = task[t].calls
                   \/ (task'[t].pc = "apiFetch" /\ task'[t].hdr = tokens.accessToken)]_vars

\* C18, amended: the refresh call is sent exactly when the four conditions hold
\* and the held refresh token is not empty; with an empty one the request ends
\* with StravaTokenRefreshError and sends nothing.  When the conditions do not
\* hold no refresh is sent and this.tokens stays: the request goes on to attach
\* the held access token unchanged, or ends with StravaValidationError when
\* there is none.
C18_RefreshIffDueAndRefreshable ==
  [][\A t \in Tasks :
       /\ EntryStep(t) =>
            /\ RefreshIssued(t) = (RefreshDue /\ tokens.refreshToken # Empty)
            /\ (RefreshDue /\ tokens.refreshToken = Empty) =>
                 /\ task'[t].pc = "done"
                 /\ Raised(task'[t]) = "StravaTokenRefreshError"
                 /\ task'[t].calls = task[t].calls
            /\ ~RefreshDue =>
                 /\ tokens' = tokens
                 /\ IF cfg.autoRefresh /\ tokens # NoTokens
                      THEN task'[t].pc = "preflightDone" /\ task'[t].calls = task[t].calls
                      ELSE AttachesHeld(t)
       /\ (task[t].pc = "preflightDone" /\ task[t].data = NoData) =>
            /\ tokens' = tokens
            /\ task'[t].pc # "preflightDone" => AttachesHeld(t)]_vars

\* With auto-refresh on, a request entered at expiresAt = now + refreshBuffer is
\* in flight with the held access token and has sent no refresh call.
C18_Witness ==
  \E t \in Tasks :
    /\ task[t].pc = "apiFetch"
    /\ cfg.autoRefresh
    /\ tokens # NoTokens
    /\ tokens.expiresAt = task[t].at + cfg.refreshBuffer
    /\ task[t].hdr = tokens.accessToken
    /\ TokenCalls(task[t]) = <<>>

\* C19: while the onTokenRefresh callback of a refresh runs, this.tokens already
\* holds the triple of the response and the request that asked for the refresh
\* has sent nothing more; a request in flight after a refresh of its own has seen
\* every callback it called return.  A callback that throws ends the operation
\* in that step with the callback's error and without another call; one that
\* returns lets refreshAccessToken return the response, to its caller or to the
\* request, which then goes on to its dispatch.
C19_StoreThenAwaitCallback ==
  /\ [](\A t \in Tasks :
         /\ task[t].pc = "callback" =>
              /\ tokens = Triple(task[t].data)
              /\ task[t].cbArg = tokens
              /\ IsTokenCall(task[t].calls[Len(task[t].calls)])
              /\ task[t].cbDone = task[t].cbCount - 1
         /\ (IsRequestOp(task[t]) /\ Dispatched(task[t]) /\ task[t].data # NoData) =>
              /\ task[t].cbCount > 0
              /\ task[t].cbDone = task[t].cbCount)
  /\ [][\A t \in Tasks :
          (task[t].pc = "callback" /\ task'[t].pc # "callback") =>
            IF task'[t].cause = "callback"
              THEN /\ task'[t].pc = "done"
                   /\ Raised(task'[t]) = "CallbackError"
                   /\ task'[t].calls = task[t].calls
                   /\ tokens' = tokens
              ELSE /\ tokens' = tokens
                   /\ task'[t].calls = task[t].calls
                   /\ IF IsRequestOp(task[t]) THEN task'[t].pc = "preflightDone"
                      ELSE /\ task'[t].pc = "done"
                           /\ task'[t].err = "none"
                           /\ task'[t].ret = task[t].data]_vars

\* A request ended with the error of the callback of its pre-flight refresh: the
\* new triple is held and the request was not sent.
C19_Witness ==
  \E t \in Tasks :
    /\ task[t].op = "getAthlete"
    /\ task[t].pc = "done"
    /\ task[t].cause = "callback"
    /\ task[t].err = "CallbackError"
    /\ task[t].cbCount = 1
    /\ tokens = Triple(task[t].data)
    /\ TokenCalls(task[t]) = task[t].calls

\* The StravaRateLimitInfo a response with both headers stands for: the first
\* number of each header is the short-term one, the second the long-term one.
ValuesOf(headers) ==
  [shortTerm |-> [usage |-> Destructure(headers.usage, 1),
                  limit |-> Destructure(headers.limit, 1)],
   longTerm |-> [usage |-> Destructure(headers.usage, 2),
                 limit |-> Destructure(headers.limit, 2)]]

\* C20: this.rateLimitInfo is absent as long as no API response carrying both
\* rate-limit headers has arrived, and is otherwise what the latest such response
\* says, whatever its status; it is so already while the error body of a
\* non-success response is read, before the error is thrown; getRateLimitInfo()
\* returns it.
C20_RateLimitInfoIsLatestRated ==
  /\ rateLimitInfo = IF lastRated = NoHeaders THEN NoRateLimitInfo ELSE ValuesOf(lastRated)
  /\ \A t \in Tasks :
       /\ (/\ task[t].pc = "apiErrBody"
           /\ Carries(task[t].rhdr.limit)
           /\ Carries(task[t].rhdr.usage))
          => rateLimitInfo = ValuesOf(task[t].rhdr)
       /\ (task[t].pc = "done" /\ task[t].op = "getRateLimitInfo")
          => task[t].ret = rateLimitInfo

\* A non-success response with headers 2,2 and 2,1 has arrived and its error is
\* not thrown yet: the rate-limit info already holds its numbers.
C20_Witness ==
  \E t \in Tasks :
    /\ task[t].pc = "apiErrBody"
    /\ task[t].rhdr = [limit |-> <<"2", "2">>, usage |-> <<"2", "1">>]
    /\ rateLimitInfo = [shortTerm |-> [usage |-> 2, limit |-> 2],
                        longTerm |-> [usage |-> 1, limit |-> 2]]

\* The operations that call request() once.
IsSingleRequestOp(tk) == tk.op \in {"getAthlete", "testConnection", "deauthorize"}

\* The calls a task made to the endpoint of its request.
EndpointCalls(tk) == SelectSeq(tk.calls, LAMBDA c : c.url = tk.path)

\* Something has made the operation of the task fail.
HasFailed(tk) == tk.cause # "none" \/ tk.err # "none" \/ tk.caught # "none"

\* C21: an operation that calls request() once makes at most one call to its
\* endpoint and at most one refresh call, the refresh first, and no other call;
\* and once anything has made an operation fail (a 429 among the statuses) the
\* operation makes no further call: it ends and its caller takes the result.
C21_NoRetry ==
  /\ [](\A t \in Tasks :
         IsSingleRequestOp(task[t]) =>
           /\ Len(EndpointCalls(task[t])) <= 1
           /\ Len(TokenCalls(task[t])) <= 1
           /\ Len(task[t].calls) = Len(EndpointCalls(task[t])) + Len(TokenCalls(task[t]))
           /\ Len(task[t].calls) = 2 => IsTokenCall(task[t].calls[1]))
  /\ [][\A t \in Tasks :
          HasFailed(task[t]) =>
            \/ task'[t].calls = task[t].calls /\ task'[t].pc \in {task[t].pc, "done"}
            \/ task[t].pc = "done" /\ task'[t] = IdleTask]_vars

\* getAthlete was answered with a non-success status after its pre-flight
\* refresh and has ended with the error: two calls, the refresh and the request.
C21_Witness ==
  \E t \in Tasks :
    /\ task[t].op = "getAthlete"
    /\ task[t].pc = "done"
    /\ task[t].cause = "status"
    /\ task[t].err # "none"
    /\ Len(task[t].calls) = 2
    /\ IsTokenCall(task[t].calls[1])
    /\ task[t].calls[2].url = "/athlete"

\* Task t takes a page it was answered with into the loop of getAllActivities.
PageStep(t) ==
  /\ task[t].op = "getAllActivities"
  /\ task[t].pc = "apiBody"
  /\ task'[t].pc # "apiBody"

\* C22: the page requests of getAllActivities are for the pages 1, 2, 3, ... in
\* this order, each once, the last of them for the page the loop is at.  A
\* page that is empty or shorter than per_page ends the operation with the items
\* so far, a longer one makes it ask for the next page, and a failure ends it
\* with the error and no items.  When the service returns an empty or short page
\* at some page at the latest and every await settles, a getAllActivities that
\* was called ends.
C22_PagesAdvanceAndEnd ==
  /\ [](\A t \in Tasks :
         task[t].op = "getAllActivities" =>
           /\ \A i \in 1..Len(PageCalls(task[t])) : PageCalls(task[t])[i].page = i
           /\ task[t].pc \in {"apiFetch", "apiBody", "apiErrBody"}
                => task[t].page = Len(PageCalls(task[t]))
           /\ (task[t].pc = "done" /\ task[t].err # "none")
                => task[t].ret = "void" /\ task[t].acc = <<>>)
  /\ [][\A t \in Tasks :
          PageStep(t) =>
            IF Len(task[t].body) = 0 \/ Len(task[t].body) < task[t].perPage
              THEN /\ task'[t].pc = "done"
                   /\ task'[t].err = "none"
                   /\ task'[t].ret = task[t].acc \o task[t].body
                   /\ task'[t].calls = task[t].calls
              ELSE /\ task'[t].page = task[t].page + 1
                   /\ task'[t].pc # "done" => task'[t].acc = task[t].acc \o task[t].body]_vars
  /\ \A t \in Tasks :
       (task[t].op = "getAllActivities" /\ task[t].pc # "done")
         ~> (task[t].op = "getAllActivities" /\ task[t].pc = "done")

\* getAllActivities took a full first page, asked for page 2 and ended with the
\* error of that request: two page requests, no items returned.
C22_Witness ==
  \E t \in Tasks :
    /\ task[t].op = "getAllActivities"
    /\ task[t].pc = "done"
    /\ task[t].err # "none"
    /\ task[t].ret = "void"
    /\ Len(PageCalls(task[t])) = 2
    /\ task[t].served = <<task[t].perPage>>

====
